---------------------------- MODULE Spec2Model ----------------------------
(***************************************************************************)
(* MistralAITextVectorizer (redisvl/utils/vectorize/text/mistral.py).      *)
(*                                                                         *)
(* One vectorizer instance: its construction (_initialize_clients, the     *)
(* dimension probe _set_model_dims, the base constructor) and the four     *)
(* embedding operations embed, embed_many, aembed, aembed_many, each       *)
(* wrapped by tenacity's @retry(wait_random_exponential(1, 60),            *)
(* stop_after_attempt(6), retry_if_not_exception_type(TypeError)).         *)
(*                                                                         *)
(* The remote provider is the environment: every request it receives is    *)
(* answered by a nondeterministic choice among a well-formed response, a   *)
(* response with an empty data list and a raised error.                    *)
(***************************************************************************)
EXTENDS Integers, Sequences, FiniteSets, TLC

(***************************************************************************)
(* Bounds of the model                                                     *)
(***************************************************************************)
\* longest list handed to embed_many / aembed_many
MaxLen == 2
\* largest batch_size handed to embed_many / aembed_many
MaxBatch == 2
\* embedding operations invoked on one instance
MaxCalls == 2
\* length of the vectors the provider returns
Dim == 2

(***************************************************************************)
(* Program constants                                                       *)
(***************************************************************************)
\* stop_after_attempt(6)
MaxAttempts == 6

(***************************************************************************)
(* Values                                                                  *)
(***************************************************************************)
\* str values a caller can pass, and what preprocess can turn them into
Strs == {"a", "b"}
Uppers == {"A", "B"}
\* "n" stands for a value that is not a str (123)
Items == Strs \cup {"n"}

RECURSIVE SeqsUpTo(_, _)
SeqsUpTo(S, n) ==
    IF n = 0 THEN {<<>>}
    ELSE LET shorter == SeqsUpTo(S, n - 1)
         IN shorter \cup {Append(s, x) : s \in {t \in shorter : Len(t) = n - 1}, x \in S}

\* the first argument of an embedding operation: a scalar (a str or not) or
\* a list of items
Args ==
    [shape : {"scalar"}, items : {<<x>> : x \in Items}]
        \cup [shape : {"list"}, items : SeqsUpTo(Items, MaxLen)]

\* isinstance(text, str)
IsStr(v) == v.shape = "scalar" /\ v.items[1] \in Strs
\* isinstance(texts, list)
IsList(v) == v.shape = "list"

Min(a, b) == IF a < b THEN a ELSE b

\* validation that looks at every element of texts
InputOkEveryElement(o, a) ==
    IF o \in {"embed", "aembed"} THEN IsStr(a)
    ELSE IsList(a) /\ \A i \in 1..Len(a.items) : a.items[i] \in Strs

\* validation that reads texts[0] without the length check
InputOkFirstElement(o, a) ==
    IF o \in {"embed", "aembed"} THEN IsStr(a)
    ELSE IsList(a) /\ Len(a.items) > 0 /\ a.items[1] \in Strs

\* validation whose concurrent bulk variant lost the element check
InputOkAsyncLax(o, a) ==
    CASE o \in {"embed", "aembed"} -> IsStr(a)
      [] o = "embed_many" -> IsList(a) /\ (Len(a.items) > 0 => a.items[1] \in Strs)
      [] o = "aembed_many" -> IsList(a)

\* the type checks that open each operation: lines 178-179 (embed), 256-257
\* (aembed), 138-141 (embed_many), 216-219 (aembed_many)
InputOk(o, a) ==
    CASE o = "embed" -> IsStr(a)
      [] o = "aembed" -> IsStr(a)
      [] o = "embed_many" -> IsList(a) /\ (Len(a.items) > 0 => a.items[1] \in Strs)
      [] o = "aembed_many" -> IsList(a) /\ (Len(a.items) > 0 => a.items[1] \in Strs)

\* the caller-supplied transforms: none, str.upper, one that raises
\* ValueError, one that raises TypeError
Preprocessors == {"none", "upper", "raiseValue", "raiseType"}

Upper(x) == CASE x = "a" -> "A" [] x = "b" -> "B" [] OTHER -> x

\* preprocess(chunk): the value it returns or the error it raises
Preprocess(p, x) ==
    CASE p = "none" -> [ok |-> TRUE, val |-> x, exc |-> "none"]
      [] p = "upper" ->
            IF x \in Strs \cup Uppers
            THEN [ok |-> TRUE, val |-> Upper(x), exc |-> "none"]
            ELSE [ok |-> FALSE, val |-> x, exc |-> "AttributeError"]
      [] p = "raiseValue" -> [ok |-> FALSE, val |-> x, exc |-> "ValueError"]
      [] p = "raiseType" -> [ok |-> FALSE, val |-> x, exc |-> "TypeError"]

(***************************************************************************)
(* The remote provider (external collaborator)                             *)
(***************************************************************************)
Code(x) == CASE x = "a" -> 1 [] x = "b" -> 3 [] x = "A" -> 5 [] x = "B" -> 7 [] OTHER -> 9

\* the vector a deterministic provider returns for one input text
Vec(x) == [i \in 1..Dim |-> Code(x) + i - 1]

\* what one remote request can end in: one vector per input in input order,
\* a response whose data list is empty, or a raised error
RemoteErrors == {"ConnectionError", "TypeError"}
RemoteOutcomes ==
    [kind : {"ok", "emptyData"}, exc : {"none"}]
        \cup [kind : {"raise"}, exc : RemoteErrors]

\* the provider only embeds texts: a request holding a non-str is rejected
CanAnswer(batch, o) ==
    o.kind = "ok" => \A i \in 1..Len(batch) : batch[i] \in Strs \cup Uppers

\* response.data of a request
ResponseData(batch, o) ==
    IF o.kind = "ok" THEN [i \in 1..Len(batch) |-> Vec(batch[i])] ELSE <<>>

(***************************************************************************)
(* BaseVectorizer: _process_embedding and batchify                         *)
(***************************************************************************)
RECURSIVE Log2(_)
Log2(n) == IF n < 2 THEN 0 ELSE 1 + Log2(n \div 2)

\* the IEEE-754 binary32 bit pattern of a small non-negative whole number
Float32Bits(n) ==
    IF n = 0 THEN 0
    ELSE LET e == Log2(n)
         IN (127 + e) * (2 ^ 23) + (n - 2 ^ e) * (2 ^ (23 - e))

\* four bytes, little-endian
Float32Bytes(n) ==
    LET b == Float32Bits(n)
    IN <<b % 256, (b \div 256) % 256, (b \div 65536) % 256, (b \div 16777216) % 256>>

RECURSIVE array_to_buffer(_)
array_to_buffer(v) ==
    IF v = <<>> THEN <<>>
    ELSE Float32Bytes(Head(v)) \o array_to_buffer(Tail(v))

\* _process_embedding(embedding, as_buffer)
ProcessEmbedding(v, asBuffer) == IF asBuffer THEN array_to_buffer(v) ELSE v

\* the chunk seq[pos : pos + size] of batchify (pos counts from 0)
Chunk(seq, pos, size) == SubSeq(seq, pos + 1, Min(pos + size, Len(seq)))

\* [preprocess(chunk) for chunk in seq[pos : pos + size]]: the batch, or the
\* error the first failing item raises; n is the number of preprocess calls
batchify(seq, pos, size, p) ==
    LET c == Chunk(seq, pos, size)
        r == [i \in 1..Len(c) |-> Preprocess(p, c[i])]
        bad == {i \in 1..Len(c) : ~r[i].ok}
        first == CHOOSE i \in bad : \A j \in bad : i <= j
    IN IF p = "none" THEN [ok |-> TRUE, batch |-> c, exc |-> "none", n |-> 0]
       ELSE IF bad = {}
            THEN [ok |-> TRUE, batch |-> [i \in 1..Len(c) |-> r[i].val],
                  exc |-> "none", n |-> Len(c)]
            ELSE [ok |-> FALSE, batch |-> <<>>, exc |-> r[first].exc, n |-> first]

(***************************************************************************)
(* State                                                                   *)
(***************************************************************************)
VARIABLES
    \* construction
    pc,              \* "start", "clients", "ready", "failed"
    api_config,      \* the api_config argument of __init__
    env_key,         \* os.getenv("MISTRAL_API_KEY"): "" when unset
    mistralai,       \* whether the mistralai library can be imported
    api_key,         \* the credential the clients were built with ("" = none)
    ctorExc,         \* the error __init__ raised ("none" = none)
    probeCalls,      \* remote requests issued by _set_model_dims
    probeRet,        \* what _set_model_dims returned (-1 = nothing yet / raised)
    model,           \* self.model ("" = unset)
    dims,            \* self.dims (-1 = unset)
    \* the embedding operation in progress
    op,              \* "none", "embed", "embed_many", "aembed", "aembed_many"
    arg,             \* text / texts
    preprocess,
    batch_size,
    as_buffer,
    ipc,             \* "idle", "run", "await", "sleep", "done"
    attempt_number,  \* tenacity's retry_state.attempt_number
    outcome,         \* tenacity's retry_state.outcome of the last attempt
    pos,             \* batchify's position in texts
    pending,         \* the remote request awaiting its response
    embeddings,      \* the local list embed_many accumulates
    ret,             \* what the caller received
    sent,            \* the batches the current attempt has submitted
    \* observations
    attemptsStarted, \* times the wrapped function body was entered
    attemptCalls,    \* remote requests issued by the current attempt
    remoteCalls,     \* remote requests issued by the current operation
    failedCalls,     \* remote requests of the current operation that raised
    preprocCalls,    \* preprocess calls made by the current operation
    emptyResponses,  \* responses with an empty data list in the current attempt
    callsMade,       \* embedding operations invoked on the instance
    \* a second call on the same instance
    other,           \* the frame of the call that is not executing
    slot             \* the response the call that is ahead received last

ctorVars == <<pc, api_config, env_key, mistralai, api_key, ctorExc, probeCalls,
              probeRet, model, dims>>
argVars == <<op, arg, preprocess, batch_size, as_buffer>>
runVars == <<ipc, attempt_number, outcome, pos, pending, embeddings, ret, sent>>
obsVars == <<attemptsStarted, attemptCalls, remoteCalls, failedCalls,
             preprocCalls, emptyResponses, callsMade>>
pairVars == <<other, slot>>
vars == <<ctorVars, argVars, runVars, obsVars, pairVars>>

\* api_config: None, {}, a dict without "api_key", {"api_key": "k"},
\* {"api_key": ""}
ApiConfigs == {"None", "empty", "other", "key", "emptykey"}

NoArg == [shape |-> "scalar", items |-> <<"n">>]
NoOutcome == [set |-> FALSE, failed |-> FALSE, value |-> <<>>, exc |-> "none"]
NoRequest == [client |-> "none", input |-> <<>>]
NoRet == [kind |-> "none", value |-> <<>>, exc |-> "none", cause |-> "none"]
NoResponse == [kind |-> "none", exc |-> "none"]

\* the frame of a call: its arguments, its retry state, its locals and what
\* was observed of it; link tells what the call is to the executing one
\* ("none": there is no second call, "mirror": the same call made through
\* another operation, "task": a coroutine running concurrently)
FrameOf(l, o, a, p, b, buf, i, n, out, q, req, acc, r, snt, st, ac, rc, fc, pcs, er) ==
    [link |-> l, op |-> o, arg |-> a, preprocess |-> p, batch_size |-> b,
     as_buffer |-> buf, ipc |-> i, attempt_number |-> n, outcome |-> out,
     pos |-> q, pending |-> req, embeddings |-> acc, ret |-> r, sent |-> snt,
     attemptsStarted |-> st, attemptCalls |-> ac, remoteCalls |-> rc,
     failedCalls |-> fc, preprocCalls |-> pcs, emptyResponses |-> er]

\* the frame of a call that has just been made
NewFrame(l, o, a, p, b, buf) ==
    FrameOf(l, o, a, p, b, buf, "run", 1, NoOutcome, 0, NoRequest, <<>>, NoRet,
            <<>>, 0, 0, 0, 0, 0, 0)

NoFrame ==
    FrameOf("none", "none", NoArg, "none", 0, FALSE, "idle", 0, NoOutcome, 0,
            NoRequest, <<>>, NoRet, <<>>, 0, 0, 0, 0, 0, 0)

Init ==
    /\ pc = "start"
    /\ api_config \in ApiConfigs
    /\ env_key \in {"", "envkey"}
    /\ mistralai \in BOOLEAN
    /\ api_key = ""
    /\ ctorExc = "none"
    /\ probeCalls = 0
    /\ probeRet = -1
    /\ model = ""
    /\ dims = -1
    /\ op = "none"
    /\ arg = NoArg
    /\ preprocess = "none"
    /\ batch_size = 0
    /\ as_buffer = FALSE
    /\ ipc = "idle"
    /\ attempt_number = 0
    /\ outcome = NoOutcome
    /\ pos = 0
    /\ pending = NoRequest
    /\ embeddings = <<>>
    /\ ret = NoRet
    /\ sent = <<>>
    /\ attemptsStarted = 0
    /\ attemptCalls = 0
    /\ remoteCalls = 0
    /\ failedCalls = 0
    /\ preprocCalls = 0
    /\ emptyResponses = 0
    /\ callsMade = 0
    /\ other = NoFrame
    /\ slot = NoResponse

(***************************************************************************)
(* Construction                                                            *)
(***************************************************************************)
\* bool(api_config)
Truthy(cfg) == cfg \in {"other", "key", "emptykey"}

\* api_config.get("api_key")
ConfigGet(cfg) == IF cfg = "key" THEN "cfgkey" ELSE ""

\* a lookup that falls back to a placeholder credential
FetchApiKeyDefault(cfg, env) ==
    IF Truthy(cfg) /\ ConfigGet(cfg) # "" THEN ConfigGet(cfg)
    ELSE IF env # "" THEN env ELSE "anonymous"

\* api_config.get("api_key") if api_config else os.getenv("MISTRAL_API_KEY")
FetchApiKey(cfg, env) == IF Truthy(cfg) THEN ConfigGet(cfg) ELSE env

\* _initialize_clients(api_config)
InitializeClients ==
    /\ pc = "start"
    /\ IF ~mistralai
       THEN /\ pc' = "failed"
            /\ ctorExc' = "ImportError"
            /\ UNCHANGED api_key
       ELSE LET key == FetchApiKey(api_config, env_key)
            IN IF key = ""
               THEN /\ pc' = "failed"
                    /\ ctorExc' = "ValueError"
                    /\ UNCHANGED api_key
               ELSE /\ pc' = "clients"
                    /\ api_key' = key
                    /\ UNCHANGED ctorExc
    /\ UNCHANGED <<api_config, env_key, mistralai, probeCalls, probeRet, model, dims>>
    /\ UNCHANGED <<argVars, runVars, obsVars, pairVars>>

\* what the sentinel request can end in: a vector of the model's length, an
\* empty vector, no vector (None), an empty data list, a raised error
ProbeOutcomes == {"ok", "emptyVec", "noneVec", "emptyData", "raise"}

\* _set_model_dims(model) on a response: the length it returns, or the
\* error it raises (ValueError from the handlers, TypeError from len(None))
ProbeDims(o) ==
    CASE o = "ok" -> [ok |-> TRUE, n |-> Len(Vec("dimension test")), exc |-> "none"]
      [] o = "emptyVec" -> [ok |-> TRUE, n |-> Len(<<>>), exc |-> "none"]
      [] o = "noneVec" -> [ok |-> FALSE, n |-> -1, exc |-> "TypeError"]
      [] o = "emptyData" -> [ok |-> FALSE, n |-> -1, exc |-> "ValueError"]
      [] o = "raise" -> [ok |-> FALSE, n |-> -1, exc |-> "ValueError"]

\* BaseVectorizer.__init__(model, dims): dims is a positive integer
BaseInitAccepts(n) == n > 0

\* a probe under the retry policy: a failed probe is issued again
SetModelDimsRetried ==
    /\ pc = "clients"
    /\ \E o \in ProbeOutcomes :
        LET r == ProbeDims(o)
        IN /\ probeCalls' = probeCalls + 1
           /\ IF ~r.ok
              THEN /\ IF probeCalls + 1 >= MaxAttempts
                      THEN pc' = "failed" /\ ctorExc' = r.exc
                      ELSE UNCHANGED <<pc, ctorExc>>
                   /\ UNCHANGED <<probeRet, model, dims>>
              ELSE /\ probeRet' = r.n
                   /\ IF BaseInitAccepts(r.n)
                      THEN /\ pc' = "ready"
                           /\ model' = "mistral-embed"
                           /\ dims' = r.n
                           /\ UNCHANGED ctorExc
                      ELSE /\ pc' = "failed"
                           /\ ctorExc' = "ValidationError"
                           /\ UNCHANGED <<model, dims>>
    /\ UNCHANGED <<api_config, env_key, mistralai, api_key>>
    /\ UNCHANGED <<argVars, runVars, obsVars, pairVars>>

\* super().__init__(model=model, dims=self._set_model_dims(model))
SetModelDims ==
    /\ pc = "clients"
    /\ \E o \in ProbeOutcomes :
        LET r == ProbeDims(o)
        IN /\ probeCalls' = probeCalls + 1
           /\ IF ~r.ok
              THEN /\ pc' = "failed"
                   /\ ctorExc' = r.exc
                   /\ UNCHANGED <<probeRet, model, dims>>
              ELSE /\ probeRet' = r.n
                   /\ IF BaseInitAccepts(r.n)
                      THEN /\ pc' = "ready"
                           /\ model' = "mistral-embed"
                           /\ dims' = r.n
                           /\ UNCHANGED ctorExc
                      ELSE /\ pc' = "failed"
                           /\ ctorExc' = "ValidationError"
                           /\ UNCHANGED <<model, dims>>
    /\ UNCHANGED <<api_config, env_key, mistralai, api_key>>
    /\ UNCHANGED <<argVars, runVars, obsVars, pairVars>>

(***************************************************************************)
(* The retry wrapper: tenacity's Retrying.iter after an attempt            *)
(***************************************************************************)
\* a retry predicate that lets no error kind through: retry_if_exception_type()
RetryAnyException(out) == out.failed

\* ValueError is exempt from the retry as well
RetryUnlessCallerError(out) == out.failed /\ out.exc \notin {"TypeError", "ValueError"}

\* retry=retry_if_not_exception_type(TypeError)
retry_if_not_exception_type(out) == out.failed /\ out.exc # "TypeError"

\* an attempt cap that is off by one, and one of 2
StopAfterSeven(n) == n >= MaxAttempts + 1
StopAfterTwo(n) == n >= 2

\* stop=stop_after_attempt(6)
stop_after_attempt(n) == n >= MaxAttempts

\* what the caller receives once the attempts are exhausted (reraise is not
\* set: RetryError, raised from the last attempt's exception)
RetryErrorOf(out) ==
    [kind |-> "error", value |-> <<>>, exc |-> "RetryError", cause |-> out.exc]

\* what the caller receives when the outcome is not retried: fut.result()
ResultOf(out) ==
    IF out.failed
    THEN [kind |-> "error", value |-> <<>>, exc |-> out.exc, cause |-> "none"]
    ELSE [kind |-> "value", value |-> out.value, exc |-> "none", cause |-> "none"]

Failed(e) == [set |-> TRUE, failed |-> TRUE, value |-> <<>>, exc |-> e]
Returned(v) == [set |-> TRUE, failed |-> FALSE, value |-> v, exc |-> "none"]

\* no stop condition: every retryable failure is followed by a further attempt
EndAttemptNoStop(out) ==
    /\ pending' = NoRequest
    /\ pos' = 0
    /\ embeddings' = <<>>
    /\ sent' = IF out.failed THEN <<>> ELSE sent
    /\ IF ~retry_if_not_exception_type(out)
       THEN /\ ipc' = "done"
            /\ outcome' = out
            /\ ret' = ResultOf(out)
            /\ UNCHANGED attempt_number
       ELSE /\ ipc' = "sleep"
            /\ outcome' = NoOutcome
            /\ attempt_number' = Min(attempt_number + 1, MaxAttempts)
            /\ UNCHANGED ret

\* the attempt ended with outcome out: return, raise, or sleep and go round
EndAttempt(out) ==
    /\ pending' = NoRequest
    /\ pos' = 0
    /\ embeddings' = <<>>
    /\ sent' = IF out.failed THEN <<>> ELSE sent
    /\ IF ~retry_if_not_exception_type(out)
       THEN /\ ipc' = "done"
            /\ outcome' = out
            /\ ret' = ResultOf(out)
            /\ UNCHANGED attempt_number
       ELSE IF stop_after_attempt(attempt_number)
            THEN /\ ipc' = "done"
                 /\ outcome' = out
                 /\ ret' = RetryErrorOf(out)
                 /\ UNCHANGED attempt_number
            ELSE /\ ipc' = "sleep"
                 /\ outcome' = NoOutcome
                 /\ attempt_number' = attempt_number + 1
                 /\ UNCHANGED ret

\* wait=wait_random_exponential(min=1, max=60): the sleep ends
Backoff ==
    /\ ipc = "sleep"
    /\ ipc' = "run"
    /\ UNCHANGED <<ctorVars, argVars, obsVars, pairVars>>
    /\ UNCHANGED <<attempt_number, outcome, pos, pending, embeddings, ret, sent>>

(***************************************************************************)
(* The embedding operations                                                *)
(***************************************************************************)
\* the instance is constructed and no operation is in progress
CanInvoke == pc = "ready" /\ ipc = "idle" /\ callsMade < MaxCalls

\* a caller invokes operation o on the constructed instance
Invoke(o, a, p, b, buf) ==
    /\ op' = o
    /\ arg' = a
    /\ preprocess' = p
    /\ batch_size' = b
    /\ as_buffer' = buf
    /\ ipc' = "run"
    /\ attempt_number' = 1
    /\ outcome' = NoOutcome
    /\ pos' = 0
    /\ pending' = NoRequest
    /\ embeddings' = <<>>
    /\ ret' = NoRet
    /\ sent' = <<>>
    /\ attemptsStarted' = 0
    /\ attemptCalls' = 0
    /\ remoteCalls' = 0
    /\ failedCalls' = 0
    /\ preprocCalls' = 0
    /\ emptyResponses' = 0
    /\ callsMade' = callsMade + 1
    /\ UNCHANGED <<ctorVars, pairVars>>

embed ==
    /\ CanInvoke
    /\ \E a \in Args, p \in Preprocessors, buf \in BOOLEAN :
           Invoke("embed", a, p, 0, buf)

aembed ==
    /\ CanInvoke
    /\ \E a \in Args, p \in Preprocessors, buf \in BOOLEAN :
           Invoke("aembed", a, p, 0, buf)

embed_many ==
    /\ CanInvoke
    /\ \E a \in Args, p \in Preprocessors, b \in 1..MaxBatch, buf \in BOOLEAN :
           Invoke("embed_many", a, p, b, buf)

aembed_many ==
    /\ CanInvoke
    /\ \E a \in Args, p \in Preprocessors, b \in 1..MaxBatch, buf \in BOOLEAN :
           Invoke("aembed_many", a, p, b, buf)

\* responses a call has received
Consumed(rc, i) == IF i = "await" THEN rc - 1 ELSE rc

\* a mirrored pair is given the same sequence of provider outcomes: the call
\* that is one response behind receives what the other received; no call
\* runs more than one response ahead
Scripted(o) ==
    other.link = "mirror" =>
        LET mine == Consumed(remoteCalls, ipc)
            theirs == Consumed(other.remoteCalls, other.ipc)
        IN IF mine < theirs THEN o = slot
           ELSE mine = theirs \/ other.ipc = "done"

\* self._client for the blocking operations, self._aclient for the others
ClientOf(o) == IF o \in {"embed", "embed_many"} THEN "client" ELSE "aclient"

\* the observations stop counting beyond what 6 attempts can reach
CapAttempts == MaxAttempts + 1
CapCalls == MaxAttempts * MaxLen + 1

\* the observation counters after a step
Observe(c, r, f, p) ==
    /\ attemptCalls' = Min(c, CapCalls)
    /\ remoteCalls' = Min(r, CapCalls)
    /\ failedCalls' = Min(f, CapCalls)
    /\ preprocCalls' = Min(p, CapCalls)

\* a request that carries the whole of texts: input=texts
RequestWhole(batch, q, acc) ==
    /\ pending' = [client |-> ClientOf(op), input |-> arg.items]
    /\ ipc' = "await"
    /\ pos' = q
    /\ embeddings' = acc
    /\ sent' = Append(sent, arg.items)
    /\ UNCHANGED <<attempt_number, outcome, ret>>

\* a request issued before the results at hand are stored
RequestBeforeAppend(batch, q, acc) ==
    /\ pending' = [client |-> ClientOf(op), input |-> batch]
    /\ ipc' = "await"
    /\ pos' = q
    /\ embeddings' = embeddings
    /\ sent' = Append(sent, batch)
    /\ UNCHANGED <<attempt_number, outcome, ret>>

\* self._client.embeddings(model=self.model, input=batch) is issued, with
\* batchify at position q and the results so far in acc
Request(batch, q, acc) ==
    /\ pending' = [client |-> ClientOf(op), input |-> batch]
    /\ ipc' = "await"
    /\ pos' = q
    /\ embeddings' = acc
    /\ sent' = Append(sent, batch)
    /\ UNCHANGED <<attempt_number, outcome, ret>>

\* embed / aembed: the body up to the remote request
EmbedAttempt ==
    /\ ipc = "run"
    /\ op \in {"embed", "aembed"}
    /\ attemptsStarted' = Min(attemptsStarted + 1, CapAttempts)
    /\ emptyResponses' = 0
    /\ IF ~InputOk(op, arg)
       THEN /\ EndAttempt(Failed("TypeError"))
            /\ Observe(0, remoteCalls, failedCalls, preprocCalls)
       ELSE IF preprocess # "none"
            THEN LET r == Preprocess(preprocess, arg.items[1])
                 IN IF r.ok
                    THEN /\ Request(<<r.val>>, 0, <<>>)
                         /\ Observe(1, remoteCalls + 1, failedCalls, preprocCalls + 1)
                    ELSE /\ EndAttempt(Failed(r.exc))
                         /\ Observe(0, remoteCalls, failedCalls, preprocCalls + 1)
            ELSE /\ Request(<<arg.items[1]>>, 0, <<>>)
                 /\ Observe(1, remoteCalls + 1, failedCalls, preprocCalls)
    /\ UNCHANGED <<ctorVars, argVars, callsMade, pairVars>>

\* embed / aembed: the remote request returns or raises
EmbedResponse ==
    /\ ipc = "await"
    /\ op \in {"embed", "aembed"}
    /\ \E o \in RemoteOutcomes :
        /\ CanAnswer(pending.input, o)
        /\ Scripted(o)
        /\ slot' = IF other.link = "mirror" THEN o ELSE slot
        /\ emptyResponses' = emptyResponses + (IF o.kind = "emptyData" THEN 1 ELSE 0)
        /\ LET data == ResponseData(pending.input, o)
           IN IF o.kind = "raise"
              THEN /\ EndAttempt(Failed(o.exc))
                   /\ Observe(attemptCalls, remoteCalls, failedCalls + 1, preprocCalls)
              ELSE /\ Observe(attemptCalls, remoteCalls, failedCalls, preprocCalls)
                   /\ IF Len(data) = 0
                      THEN EndAttempt(Failed("IndexError"))
                      ELSE EndAttempt(Returned(ProcessEmbedding(data[1], as_buffer)))
    /\ UNCHANGED <<ctorVars, argVars, attemptsStarted, callsMade, other>>

\* the vectors are appended as the provider returned them
AccumulateRaw(acc, data, asBuffer) == acc \o data

\* an assignment in place of the += : the earlier batches are dropped
AccumulateReplace(acc, data, asBuffer) ==
    [i \in 1..Len(data) |-> ProcessEmbedding(data[i], asBuffer)]

\* embeddings += [self._process_embedding(r.embedding, as_buffer)
\*                for r in response.data]
Accumulate(acc, data, asBuffer) ==
    acc \o [i \in 1..Len(data) |-> ProcessEmbedding(data[i], asBuffer)]

\* embed_many / aembed_many: the for loop takes the next batch from batchify
\* at position q, with the results so far in acc and c requests issued by
\* this attempt, and issues its request; the list is returned at the end
NextBatch(q, acc, c) ==
    IF q >= Len(arg.items)
    THEN /\ EndAttempt(Returned(acc))
         /\ Observe(c, remoteCalls, failedCalls, preprocCalls)
    ELSE LET b == batchify(arg.items, q, batch_size, preprocess)
         IN IF b.ok
            THEN /\ Request(b.batch, q, acc)
                 /\ Observe(c + 1, remoteCalls + 1, failedCalls, preprocCalls + b.n)
            ELSE /\ EndAttempt(Failed(b.exc))
                 /\ Observe(c, remoteCalls, failedCalls, preprocCalls + b.n)

\* a retry per batch: the attempt after a failure goes on at the batch that
\* failed, with the results of the batches before it
EmbedManyAttemptPerBatch ==
    /\ ipc = "run"
    /\ op \in {"embed_many", "aembed_many"}
    /\ attemptsStarted' = Min(attemptsStarted + 1, CapAttempts)
    /\ emptyResponses' = 0
    /\ IF ~InputOk(op, arg)
       THEN /\ EndAttempt(Failed("TypeError"))
            /\ Observe(0, remoteCalls, failedCalls, preprocCalls)
       ELSE LET done == IF Len(arg.items) = 0 THEN 0
                        ELSE Min(remoteCalls - failedCalls,
                                 (Len(arg.items) - 1) \div batch_size)
                q == done * batch_size
            IN NextBatch(q,
                         [i \in 1..q |->
                            ProcessEmbedding(Vec(Preprocess(preprocess, arg.items[i]).val),
                                             as_buffer)],
                         done)
    /\ UNCHANGED <<ctorVars, argVars, callsMade, pairVars>>

\* embed_many / aembed_many: the body up to the first remote request
EmbedManyAttempt ==
    /\ ipc = "run"
    /\ op \in {"embed_many", "aembed_many"}
    /\ attemptsStarted' = Min(attemptsStarted + 1, CapAttempts)
    /\ emptyResponses' = 0
    /\ IF ~InputOk(op, arg)
       THEN /\ EndAttempt(Failed("TypeError"))
            /\ Observe(0, remoteCalls, failedCalls, preprocCalls)
       ELSE NextBatch(0, <<>>, 0)
    /\ UNCHANGED <<ctorVars, argVars, callsMade, pairVars>>

\* embed_many / aembed_many: the remote request returns or raises; the
\* results are appended and the loop goes on
EmbedManyResponse ==
    /\ ipc = "await"
    /\ op \in {"embed_many", "aembed_many"}
    /\ \E o \in RemoteOutcomes :
        /\ CanAnswer(pending.input, o)
        /\ Scripted(o)
        /\ slot' = IF other.link = "mirror" THEN o ELSE slot
        /\ emptyResponses' = emptyResponses + (IF o.kind = "emptyData" THEN 1 ELSE 0)
        /\ LET data == ResponseData(pending.input, o)
           IN IF o.kind = "raise"
              THEN /\ EndAttempt(Failed(o.exc))
                   /\ Observe(attemptCalls, remoteCalls, failedCalls + 1, preprocCalls)
              ELSE NextBatch(pos + batch_size,
                             Accumulate(embeddings, data, as_buffer),
                             attemptCalls)
    /\ UNCHANGED <<ctorVars, argVars, attemptsStarted, callsMade, other>>

\* the operation has returned or raised, and the caller goes on
Return ==
    /\ ipc = "done"
    /\ ipc' = "idle"
    /\ op' = "none"
    /\ arg' = NoArg
    /\ preprocess' = "none"
    /\ batch_size' = 0
    /\ as_buffer' = FALSE
    /\ attempt_number' = 0
    /\ outcome' = NoOutcome
    /\ ret' = NoRet
    /\ sent' = <<>>
    /\ attemptsStarted' = 0
    /\ Observe(0, 0, 0, 0)
    /\ emptyResponses' = 0
    /\ UNCHANGED <<ctorVars, pos, pending, embeddings, callsMade, pairVars>>

Next ==
    \/ InitializeClients
    \/ SetModelDims
    \/ embed
    \/ aembed
    \/ embed_many
    \/ aembed_many
    \/ EmbedAttempt
    \/ EmbedResponse
    \/ EmbedManyAttempt
    \/ EmbedManyResponse
    \/ Backoff
    \/ Return

Spec == Init /\ [][Next]_vars

(***************************************************************************)
(* Two calls on one instance                                               *)
(***************************************************************************)
\* the frame of the executing call
Frame(l) ==
    FrameOf(l, op, arg, preprocess, batch_size, as_buffer, ipc, attempt_number,
            outcome, pos, pending, embeddings, ret, sent, attemptsStarted,
            attemptCalls, remoteCalls, failedCalls, preprocCalls, emptyResponses)

\* the list of results is an attribute of the instance, shared by the calls
ResumeSharedList(f) ==
    /\ op' = f.op
    /\ arg' = f.arg
    /\ preprocess' = f.preprocess
    /\ batch_size' = f.batch_size
    /\ as_buffer' = f.as_buffer
    /\ ipc' = f.ipc
    /\ attempt_number' = f.attempt_number
    /\ outcome' = f.outcome
    /\ pos' = f.pos
    /\ pending' = f.pending
    /\ embeddings' = embeddings
    /\ ret' = f.ret
    /\ sent' = f.sent
    /\ attemptsStarted' = f.attemptsStarted
    /\ attemptCalls' = f.attemptCalls
    /\ remoteCalls' = f.remoteCalls
    /\ failedCalls' = f.failedCalls
    /\ preprocCalls' = f.preprocCalls
    /\ emptyResponses' = f.emptyResponses

\* the call in frame f executes
Resume(f) ==
    /\ op' = f.op
    /\ arg' = f.arg
    /\ preprocess' = f.preprocess
    /\ batch_size' = f.batch_size
    /\ as_buffer' = f.as_buffer
    /\ ipc' = f.ipc
    /\ attempt_number' = f.attempt_number
    /\ outcome' = f.outcome
    /\ pos' = f.pos
    /\ pending' = f.pending
    /\ embeddings' = f.embeddings
    /\ ret' = f.ret
    /\ sent' = f.sent
    /\ attemptsStarted' = f.attemptsStarted
    /\ attemptCalls' = f.attemptCalls
    /\ remoteCalls' = f.remoteCalls
    /\ failedCalls' = f.failedCalls
    /\ preprocCalls' = f.preprocCalls
    /\ emptyResponses' = f.emptyResponses

\* the executing call is suspended at a remote call (await
\* self._aclient.embeddings), in its backoff sleep, or is over, and the
\* other call goes on; a blocking call is never suspended by a coroutine
Switch ==
    /\ other.link # "none"
    /\ other.ipc # "done"
    /\ ipc \in {"await", "sleep", "done"}
    /\ ipc = "done" \/ other.link = "mirror" \/ ClientOf(op) = "aclient"
    /\ other' = Frame(other.link)
    /\ Resume(other)
    /\ UNCHANGED <<ctorVars, callsMade, slot>>

\* embed <-> aembed, embed_many <-> aembed_many
Counterpart(o) ==
    CASE o = "embed" -> "aembed"
      [] o = "aembed" -> "embed"
      [] o = "embed_many" -> "aembed_many"
      [] o = "aembed_many" -> "embed_many"

\* embed -> embed_many, aembed -> aembed_many
ManyOf(o) == IF ClientOf(o) = "client" THEN "embed_many" ELSE "aembed_many"

\* the call just made is made a second time, with the same arguments through
\* the blocking / concurrent counterpart, or, for embed(text) and
\* aembed(text), as embed_many([text]) and aembed_many([text])
Mirror ==
    /\ other.link = "none"
    /\ ipc = "run"
    /\ attemptsStarted = 0
    /\ \/ other' = NewFrame("mirror", Counterpart(op), arg, preprocess,
                             batch_size, as_buffer)
       \/ /\ op \in {"embed", "aembed"}
          /\ arg.shape = "scalar"
          /\ \E b \in 1..MaxBatch :
                other' = NewFrame("mirror", ManyOf(op),
                                  [shape |-> "list", items |-> arg.items],
                                  preprocess, b, as_buffer)
    /\ UNCHANGED <<ctorVars, argVars, runVars, obsVars, slot>>

\* an instance built from api_config = {"api_key": ...}
InitPair ==
    /\ Init
    /\ api_config = "key"
    /\ env_key = ""
    /\ mistralai

NextPair ==
    \/ InitializeClients
    \/ SetModelDims
    \/ embed
    \/ aembed
    \/ embed_many
    \/ aembed_many
    \/ Mirror
    \/ Switch
    \/ EmbedAttempt
    \/ EmbedResponse
    \/ EmbedManyAttempt
    \/ EmbedManyResponse
    \/ Backoff

SpecPair == InitPair /\ [][NextPair]_vars

\* the texts given to the concurrent calls
ConcTexts == {<<"a", "b">>, <<"b">>}

\* the calls that are run concurrently: aembed(text) and
\* aembed_many(texts, batch_size = b), with or without a preprocess
ConcCalls ==
    {NewFrame("task", "aembed", [shape |-> "scalar", items |-> <<x>>], "none", 0, FALSE) :
        x \in Strs}
    \cup
    {NewFrame("task", "aembed_many", [shape |-> "list", items |-> t], p, b, FALSE) :
        t \in ConcTexts, p \in {"none", "upper"}, b \in 1..MaxBatch}

\* asyncio.gather(c1, c2) of two calls on the instance: both are started,
\* the first executes up to its first suspension
Gather ==
    /\ CanInvoke
    /\ other.link = "none"
    /\ callsMade + 2 <= MaxCalls
    /\ \E f \in ConcCalls, g \in ConcCalls :
        /\ Resume(f)
        /\ other' = g
    /\ callsMade' = callsMade + 2
    /\ UNCHANGED <<ctorVars, slot>>

NextConc ==
    \/ InitializeClients
    \/ SetModelDims
    \/ Gather
    \/ Switch
    \/ EmbedAttempt
    \/ EmbedResponse
    \/ EmbedManyAttempt
    \/ EmbedManyResponse
    \/ Backoff

SpecConc == InitPair /\ [][NextConc]_vars

\* an operation in progress goes on: the body runs, the remote call returns
\* or raises, the backoff sleep (at most 60 s) ends
Progress ==
    /\ WF_vars(EmbedAttempt)
    /\ WF_vars(EmbedResponse)
    /\ WF_vars(EmbedManyAttempt)
    /\ WF_vars(EmbedManyResponse)
    /\ WF_vars(Backoff)

\* one operation invoked on a constructed instance and run to its end
NextLive ==
    \/ InitializeClients
    \/ SetModelDims
    \/ embed
    \/ aembed
    \/ embed_many
    \/ aembed_many
    \/ EmbedAttempt
    \/ EmbedResponse
    \/ EmbedManyAttempt
    \/ EmbedManyResponse
    \/ Backoff

SpecLive == InitPair /\ [][NextLive]_vars /\ Progress

(***************************************************************************)
(* Properties                                                              *)
(***************************************************************************)
Single == op \in {"embed", "aembed"}
Many == op \in {"embed_many", "aembed_many"}

\* the attempt that just ended the operation failed with a retryable error
EndedRetryable == ipc = "done" /\ outcome.failed /\ outcome.exc # "TypeError"

\* C1: an invocation of embed, embed_many, aembed or aembed_many makes at
\* most 6 attempts: a backoff (hence another attempt) is only pending while
\* fewer than 6 attempts were made, and the operation ends on an error other
\* than TypeError only when the 6th attempt raised it.
C1_AtMostSixAttempts ==
    /\ attemptsStarted <= 6
    /\ ipc = "sleep" => attemptsStarted < 6
    /\ EndedRetryable => attemptsStarted = 6

\* C1 witness: embed ended after a 6th attempt that hit an empty data list
C1_Witness ==
    /\ Single
    /\ ipc = "done"
    /\ attemptsStarted = 6
    /\ outcome.failed
    /\ outcome.exc = "IndexError"

\* C2: when all 6 attempts fail with retryable errors, the caller receives
\* the error the 6th attempt raised, of the same kind, not an error of the
\* retry wrapper.
C2_LastErrorPropagated ==
    (EndedRetryable /\ attemptsStarted = 6)
        => (ret.kind = "error" /\ ret.exc = outcome.exc)

\* the input fails validation: embed/aembed with a non-str, embed_many /
\* aembed_many with a non-list or a list whose first element is not a str
BadInput ==
    \/ Single /\ ~(arg.shape = "scalar" /\ arg.items[1] \in Strs)
    \/ Many /\ arg.shape # "list"
    \/ Many /\ arg.shape = "list" /\ Len(arg.items) > 0 /\ arg.items[1] \notin Strs

\* C3: an input that triggers the input type error fails with TypeError on
\* the first attempt: one attempt, no retry, no remote call.
C3_TypeErrorNotRetried ==
    BadInput =>
        /\ remoteCalls = 0
        /\ attemptsStarted <= 1
        /\ ipc \in {"run", "done"}
        /\ ipc = "done" =>
            /\ attemptsStarted = 1
            /\ ret.kind = "error"
            /\ ret.exc = "TypeError"

\* C3 witness: embed_many of a list whose first element is not a str ended
C3_Witness ==
    /\ op = "embed_many"
    /\ arg.shape = "list"
    /\ Len(arg.items) = 2
    /\ arg.items[1] = "n"
    /\ ipc = "done"
    /\ ret.exc = "TypeError"
    /\ remoteCalls = 0

\* texts is a list of str values
AllStr == arg.shape = "list" /\ \A i \in 1..Len(arg.items) : arg.items[i] \in Strs

\* ceil(n / b)
NumBatches(n, b) == (n + b - 1) \div b

\* the normalized embedding of the preprocessed i-th input
Expected(i) ==
    ProcessEmbedding(Vec(Preprocess(preprocess, arg.items[i]).val), as_buffer)

\* C4: for a list of N strings and a batch size B >= 1, when the remote
\* calls of the attempt that returns answer with one vector per input,
\* embed_many / aembed_many issue one request per batch and return N
\* normalized embeddings, the i-th being that of the preprocessed i-th
\* input, also after earlier attempts failed.
C4_OrderedResults ==
    (Many /\ AllStr /\ ipc = "done" /\ ret.kind = "value" /\ emptyResponses = 0) =>
        /\ attemptCalls = NumBatches(Len(arg.items), batch_size)
        /\ Len(ret.value) = Len(arg.items)
        /\ \A i \in 1..Len(arg.items) : ret.value[i] = Expected(i)

\* C4 witness: two batches of one item each, returned by the third attempt
C4_Witness ==
    /\ op = "aembed_many"
    /\ arg.shape = "list"
    /\ arg.items = <<"b", "a">>
    /\ batch_size = 1
    /\ preprocess = "upper"
    /\ as_buffer
    /\ attemptsStarted = 3
    /\ ipc = "done"
    /\ ret.kind = "value"
    /\ emptyResponses = 0

\* texts forms a single batch
SingleBatch ==
    Many /\ AllStr /\ Len(arg.items) >= 1 /\ Len(arg.items) <= batch_size

\* C5: in embed_many / aembed_many on a single batch, k remote failures with
\* a non-type error followed by a success end in success with exactly k + 1
\* remote calls; with a preprocess that does not fail, the operation ends in
\* such an error only when 6 remote calls failed.
C5_RetriesThenSucceeds ==
    (SingleBatch /\ ipc = "done") =>
        /\ ret.kind = "value" =>
            /\ remoteCalls = failedCalls + 1
            /\ attemptsStarted = failedCalls + 1
        /\ (ret.kind = "error" /\ preprocess \in {"none", "upper"}
                /\ outcome.exc # "TypeError") => failedCalls = 6

\* C5 witness: two failures, then success on the third remote call
C5_Witness ==
    /\ op = "embed_many"
    /\ SingleBatch
    /\ ipc = "done"
    /\ ret.kind = "value"
    /\ failedCalls = 2
    /\ remoteCalls = 3

\* the input passes validation and the preprocess transform raises
PreprocessRaises ==
    /\ preprocess \in {"raiseValue", "raiseType"}
    /\ \/ Single /\ arg.shape = "scalar" /\ arg.items[1] \in Strs
       \/ Many /\ arg.shape = "list" /\ Len(arg.items) > 0 /\ arg.items[1] \in Strs

\* C6: a failure raised by the preprocess transform, of any error kind,
\* reaches the caller on first occurrence: one attempt, the transform is
\* applied once, and the caller receives that error.
C6_PreprocessFailureNotRetried ==
    PreprocessRaises =>
        /\ attemptsStarted <= 1
        /\ preprocCalls <= 1
        /\ ipc # "sleep"
        /\ ipc = "done" => (ret.kind = "error" /\ ret.exc = outcome.exc)

\* C7: the dimension probe issues exactly one remote request per instance,
\* during construction and before any embedding operation; a failing probe
\* fails construction after that one request; no step of a constructed
\* instance issues the probe again or changes model or dims.
C7_ProbeOnce ==
    /\ [](/\ probeCalls <= 1
          /\ pc = "start" => probeCalls = 0
          /\ pc = "ready" => (probeCalls = 1 /\ dims = probeRet)
          /\ (op # "none" \/ remoteCalls > 0) => (pc = "ready" /\ probeCalls = 1))
    /\ [][/\ pc = "clients" => (pc' \in {"ready", "failed"} /\ probeCalls' = 1)
          /\ pc = "ready" =>
                (pc' = "ready" /\ probeCalls' = probeCalls /\ dims' = dims
                    /\ model' = model)]_vars

\* C7 witness: a second operation on the instance ended after 6 attempts
C7_Witness ==
    /\ pc = "ready"
    /\ callsMade = 2
    /\ ipc = "done"
    /\ attemptsStarted = 6
    /\ remoteCalls >= 6
    /\ probeCalls = 1
    /\ dims >= 1

\* C8: the probe returns a positive integer or fails: whenever
\* _set_model_dims has returned, what it returned is at least 1.
C8_ProbePositiveOrFails == probeRet # -1 => probeRet >= 1

\* no credential: no api_key in api_config and no MISTRAL_API_KEY
NoCredential == api_config \in {"None", "empty", "other"} /\ env_key = ""

\* C9: construction with no credential available fails with a configuration
\* error before any remote call: no probe, no embedding request, no usable
\* instance.
C9_NoCredentialFails ==
    NoCredential =>
        /\ pc \in {"start", "failed"}
        /\ pc = "failed" => ctorExc \in {"ValueError", "ImportError"}
        /\ (pc = "failed" /\ mistralai) => ctorExc = "ValueError"
        /\ probeCalls = 0
        /\ remoteCalls = 0
        /\ op = "none"
        /\ api_key = ""

\* C9 witness: api_config is None, the variable is unset, construction failed
C9_Witness ==
    /\ api_config = "None"
    /\ env_key = ""
    /\ mistralai
    /\ pc = "failed"
    /\ ctorExc = "ValueError"
    /\ probeCalls = 0

\* C10: the credential is api_config's api_key when provided and otherwise
\* the environment variable; construction fails for a missing credential
\* only when both are absent.
C10_CredentialFromEitherSource ==
    (mistralai /\ pc # "start") =>
        /\ api_config = "key" => api_key = "cfgkey"
        /\ (api_config # "key" /\ env_key # "") => api_key = env_key
        /\ (pc = "failed" /\ probeCalls = 0) => (api_config # "key" /\ env_key = "")

\* the executing call and the other one are embed(text) and
\* embed_many([text]) (or aembed and aembed_many), both have returned, and
\* the provider answered the requests of their last attempts in full
SingleAndMany(f, g) ==
    /\ f.op \in {"embed", "aembed"}
    /\ g.op = ManyOf(f.op)
    /\ g.arg = [shape |-> "list", items |-> f.arg.items]
    /\ f.ipc = "done" /\ g.ipc = "done"
    /\ f.ret.kind = "value" /\ g.ret.kind = "value"
    /\ f.emptyResponses = 0 /\ g.emptyResponses = 0

\* C11: for a valid single string and a deterministic provider, embed(text)
\* and embed_many([text])[0] return the same normalized result, and so do
\* aembed and aembed_many, for either as_buffer and any preprocess.
C11_SingleEqualsMany ==
    other.link = "mirror" =>
        /\ SingleAndMany(Frame("mirror"), other) =>
                (Len(other.ret.value) = 1 /\ other.ret.value[1] = ret.value)
        /\ SingleAndMany(other, Frame("mirror")) =>
                (Len(ret.value) = 1 /\ ret.value[1] = other.ret.value)

\* C11 witness: aembed("b") and aembed_many(["b"]) returned, as buffers, with
\* a preprocess, the second after a retry
C11_Witness ==
    /\ other.link = "mirror"
    /\ SingleAndMany(other, Frame("mirror"))
    /\ op = "aembed_many"
    /\ arg.items = <<"b">>
    /\ as_buffer
    /\ preprocess = "upper"
    /\ attemptsStarted = 2

\* the batches laid end to end
RECURSIVE Flatten(_)
Flatten(bs) == IF bs = <<>> THEN <<>> ELSE Head(bs) \o Flatten(Tail(bs))

\* the first n preprocessed inputs
Preprocessed(n) == [i \in 1..n |-> Preprocess(preprocess, arg.items[i]).val]

\* C12: for N strings and a batch size B >= 1 the batches embed_many and
\* aembed_many submit in one attempt are never empty, the j-th has B items
\* unless it is batch number ceil(N/B), which has the remaining ones, laid
\* end to end they are the preprocessed input in its order (no overlap, no
\* gap), and an attempt that returns has submitted ceil(N/B) of them (zero
\* for the empty list).
C12_Batches ==
    (Many /\ AllStr) =>
        LET n == Len(arg.items)
            k == NumBatches(n, batch_size)
        IN /\ Len(sent) <= k
           /\ \A j \in 1..Len(sent) :
                /\ Len(sent[j]) >= 1
                /\ Len(sent[j]) = IF j < k THEN batch_size
                                  ELSE n - (k - 1) * batch_size
           /\ Flatten(sent) = Preprocessed(Len(Flatten(sent)))
           /\ (ipc = "done" /\ ret.kind = "value") =>
                (Len(sent) = k /\ Flatten(sent) = Preprocessed(n))

\* C12 witness: two strings in batches of one, preprocessed, returned
C12_Witness ==
    /\ op = "embed_many"
    /\ batch_size = 1
    /\ arg.shape = "list"
    /\ arg.items = <<"b", "a">>
    /\ preprocess = "upper"
    /\ ipc = "done"
    /\ ret.kind = "value"
    /\ sent = << <<"B">>, <<"A">> >>

\* the other call is the executing one made through the blocking /
\* concurrent counterpart, with the same arguments
Twin ==
    /\ other.link = "mirror"
    /\ other.op = Counterpart(op)
    /\ other.arg = arg
    /\ other.preprocess = preprocess
    /\ other.batch_size = batch_size
    /\ other.as_buffer = as_buffer

ExpectedOf(f, i) ==
    ProcessEmbedding(Vec(Preprocess(f.preprocess, f.arg.items[i]).val), f.as_buffer)

\* the inputs of the call in frame f, preprocessed
PreprocessedOf(f) ==
    [i \in 1..Len(f.arg.items) |-> Preprocess(f.preprocess, f.arg.items[i]).val]

\* what the call in frame f holds and returns is what it holds and returns
\* when run alone: requests made of its own inputs, in order, results of
\* its own earlier batches only, its own count of attempts, and at the end
\* the embeddings of its own inputs or its own last error
AsAlone(f) ==
    LET n == Len(f.arg.items)
        many == f.op = "aembed_many"
        k == IF many THEN NumBatches(n, f.batch_size) ELSE 1
    IN /\ f.attemptsStarted <= MaxAttempts
       /\ f.attempt_number <= MaxAttempts
       /\ f.ipc \in {"await", "sleep", "done"} => f.attemptsStarted = f.attempt_number
              \/ (f.ipc = "sleep" /\ f.attemptsStarted + 1 = f.attempt_number)
       /\ f.remoteCalls <= MaxAttempts * k
       /\ Len(f.sent) <= k
       /\ Flatten(f.sent) = SubSeq(PreprocessedOf(f), 1, Len(Flatten(f.sent)))
       /\ (f.ipc = "await") =>
            /\ f.pending.input = f.sent[Len(f.sent)]
            /\ f.attemptCalls = Len(f.sent)
            /\ many => Len(f.embeddings) <= f.pos
            /\ (many /\ f.emptyResponses = 0) =>
                  /\ Len(f.embeddings) = f.pos
                  /\ \A i \in 1..f.pos : f.embeddings[i] = ExpectedOf(f, i)
       /\ (f.ipc = "done" /\ f.ret.kind = "value" /\ f.emptyResponses = 0) =>
            IF many
            THEN /\ Len(f.ret.value) = n
                 /\ \A i \in 1..n : f.ret.value[i] = ExpectedOf(f, i)
            ELSE f.ret.value = ExpectedOf(f, 1)
       /\ (f.ipc = "done" /\ f.ret.kind = "error") =>
            /\ f.outcome.failed
            /\ \/ f.ret.exc = f.outcome.exc
               \/ /\ f.ret.exc = "RetryError"
                  /\ f.ret.cause = f.outcome.exc
                  /\ f.attemptsStarted = MaxAttempts

\* two calls run concurrently on the instance
Concurrent == other.link = "task" /\ op \in {"aembed", "aembed_many"}

\* C14: two aembed / aembed_many calls interleaved at their remote calls and
\* backoff sleeps do not interfere: each holds the results of its own
\* batches and its own attempt count and returns the result or error it
\* returns when run alone, and model and dims are never written once the
\* instance is constructed.
C14_NoInterference ==
    /\ [](Concurrent => (AsAlone(Frame("task")) /\ AsAlone(other)))
    /\ [][pc = "ready" => (model' = model /\ dims' = dims)]_vars

\* C14 witness: two aembed_many calls of two batches each, both returned
\* after the other was resumed between their two requests, one of them by
\* its second attempt
C14_Witness ==
    /\ Concurrent
    /\ op = "aembed_many"
    /\ other.op = "aembed_many"
    /\ ipc = "done"
    /\ other.ipc = "done"
    /\ ret.kind = "value"
    /\ other.ret.kind = "value"
    /\ Len(ret.value) = 2
    /\ Len(other.ret.value) = 2
    /\ preprocess # other.preprocess
    /\ attemptsStarted = 2
    /\ other.attemptsStarted = 1
    /\ remoteCalls = 3

\* C15: within an attempt of embed_many / aembed_many the batches are
\* requested one after the other in input order: a request is outstanding
\* exactly while the call waits for it, it is the only one, it is the batch
\* at the current position, and the responses of all earlier batches of the
\* attempt have been appended to the results before it was issued.
C15_SequentialBatches ==
    Many =>
        /\ (ipc = "await") <=> (pending # NoRequest)
        /\ (ipc = "await") =>
            /\ Len(sent) = attemptCalls
            /\ pending.input = sent[Len(sent)]
            /\ pos = (attemptCalls - 1) * batch_size
            /\ preprocess = "none" =>
                  pending.input = Chunk(arg.items, pos, batch_size)
            /\ Len(embeddings) <= pos
            /\ (AllStr /\ emptyResponses = 0) =>
                  /\ Len(embeddings) = pos
                  /\ \A i \in 1..pos : embeddings[i] = Expected(i)

\* C15 witness: the request for the second batch is outstanding and the
\* result of the first batch is in the list
C15_Witness ==
    /\ Many
    /\ AllStr
    /\ ipc = "await"
    /\ attemptCalls = 2
    /\ pos = batch_size
    /\ Len(embeddings) = pos
    /\ emptyResponses = 0
    /\ attemptsStarted = 2

\* a list whose first element is a string
FirstIsStr == IsList(arg) /\ Len(arg.items) >= 1 /\ arg.items[1] \in Strs

\* C16: embed_many / aembed_many validate the container type and the type
\* of the first element only: a list whose first element is a string passes
\* whatever its later elements are, the attempt goes on to preprocess or to
\* the remote request, and without a preprocess the items are submitted as
\* given, the later non-string ones included.
C16_FirstElementOnly ==
    (Many /\ FirstIsStr /\ attemptsStarted >= 1) =>
        /\ preprocCalls >= 1 \/ remoteCalls >= 1
        /\ preprocess = "none" => remoteCalls >= attemptsStarted
        /\ (ipc = "await" /\ preprocess = "none") =>
              pending.input = Chunk(arg.items, pos, batch_size)
        /\ (ipc = "done" /\ outcome.failed /\ outcome.exc = "TypeError") =>
              (failedCalls >= 1 \/ preprocess = "raiseType")

\* C16 witness: ["a", n] with n not a string has passed validation and the
\* request carrying n is outstanding
C16_Witness ==
    /\ Many
    /\ FirstIsStr
    /\ ~AllStr
    /\ preprocess = "none"
    /\ ipc = "await"
    /\ \E i \in 1..Len(pending.input) : pending.input[i] \notin Strs

\* C19: embed_many([]) and aembed_many([]) pass validation, make one
\* attempt, call neither the preprocess nor the provider, and return the
\* empty list, whatever the batch size.
C19_EmptyList ==
    (Many /\ IsList(arg) /\ Len(arg.items) = 0 /\ attemptsStarted >= 1) =>
        /\ ipc = "done"
        /\ attemptsStarted = 1
        /\ remoteCalls = 0
        /\ preprocCalls = 0
        /\ ~outcome.failed
        /\ ret.kind = "value"
        /\ ret.value = <<>>

\* C19 witness: aembed_many([], batch_size = 2) has returned
C19_Witness ==
    /\ op = "aembed_many"
    /\ IsList(arg)
    /\ Len(arg.items) = 0
    /\ batch_size = 2
    /\ ipc = "done"
    /\ ret.kind = "value"

\* C17: embed_many / aembed_many are retried as a whole: an attempt after a
\* failure starts from the first batch with an empty list, so each attempt's
\* requests are the batches from the first on and the list holds results of
\* this attempt only; the list returned has one embedding per input, from
\* the requests of the returning attempt; and an operation issues at most
\* 6 * ceil(N/B) remote requests.
C17_RetryWholeOperation ==
    (Many /\ IsList(arg)) =>
        LET n == Len(arg.items)
            k == NumBatches(n, batch_size)
        IN /\ remoteCalls <= MaxAttempts * k
           /\ ipc \in {"run", "sleep"} =>
                (embeddings = <<>> /\ pos = 0 /\ sent = <<>>)
           /\ ipc = "await" =>
                /\ Len(sent) = attemptCalls
                /\ pos = (Len(sent) - 1) * batch_size
                /\ Len(embeddings) <= pos
                /\ AllStr => sent[1] = Preprocessed(Len(sent[1]))
           /\ (ipc = "done" /\ ret.kind = "value") =>
                /\ attemptCalls = k
                /\ Len(sent) = k
                /\ remoteCalls >= failedCalls + k
                /\ emptyResponses = 0 => Len(ret.value) = n

\* C17 witness: the second of two batches failed in the first attempt, the
\* second attempt requested both batches again and returned two embeddings
C17_Witness ==
    /\ Many
    /\ AllStr
    /\ Len(arg.items) = 2
    /\ batch_size = 1
    /\ ipc = "done"
    /\ ret.kind = "value"
    /\ Len(ret.value) = 2
    /\ attemptsStarted = 2
    /\ failedCalls = 1
    /\ remoteCalls = 4

\* the input passes the type checks
ValidInput ==
    \/ Single /\ IsStr(arg)
    \/ Many /\ IsList(arg) /\ (Len(arg.items) > 0 => arg.items[1] \in Strs)

InProgress == ipc \in {"run", "await", "sleep"}

\* C20: every invocation of embed, embed_many, aembed or aembed_many
\* completes, with a result or an error, whatever the provider answers, as
\* long as each remote call and each preprocess call returns or raises.
C20_EventuallyCompletes == [](InProgress => <>(ipc = "done"))

\* C20 witness: aembed_many of two batches has ended with an error after the
\* provider failed in all six attempts, at the second batch each time
C20_Witness ==
    /\ op = "aembed_many"
    /\ AllStr
    /\ ipc = "done"
    /\ ret.kind = "error"
    /\ ret.exc = "RetryError"
    /\ attemptsStarted = MaxAttempts
    /\ failedCalls = MaxAttempts
    /\ remoteCalls = 2 * MaxAttempts

=============================================================================
